---------------------------- MODULE Spec2Model ----------------------------
(***************************************************************************)
(* A model of the u301-js client SDK: the error taxonomy (errors.ts), the  *)
(* response schemas and resource clients (url-shortener.ts, analytics.ts)  *)
(* and the facade's transport hooks (index.ts).                            *)
(*                                                                         *)
(* JSON / JavaScript values are tagged records [t, v]: t is the typeof     *)
(* tag, v the text of the value.  An absent object key is the value        *)
(* Undefined.                                                              *)
(***************************************************************************)
EXTENDS Integers, Sequences, FiniteSets, TLC

VARIABLES
    workspaceId,   \* client -> the workspace id it was constructed with
    heap,          \* caller-owned ListParams objects, as they are now
    given,         \* the same objects as the caller wrote them
    slot,          \* the calls in flight or just finished, one per slot
    classified     \* one application of toU301Error / isU301Error

vars == <<workspaceId, heap, given, slot, classified>>

----------------------------------------------------------------------------
(* JavaScript values *)

Undefined == [t |-> "undefined", v |-> ""]
Null == [t |-> "null", v |-> ""]
Str(s) == [t |-> "string", v |-> s]
Num(s) == [t |-> "number", v |-> s]
Bool(s) == [t |-> "boolean", v |-> s]

\* ToBoolean of a scalar value.
Truthy(x) ==
    ~ \/ x.t \in {"undefined", "null"}
      \/ x.t = "string" /\ x.v = ""
      \/ x.t = "number" /\ x.v \in {"0", "NaN"}
      \/ x.t = "boolean" /\ x.v = "false"

IsString(x) == x.t = "string"
IsNumber(x) == x.t = "number" /\ x.v # "NaN"
IsBoolean(x) == x.t = "boolean"
\* v.optional(s): undefined passes, anything else must match s.
OptionalString(x) == x.t = "undefined" \/ IsString(x)

----------------------------------------------------------------------------
(* errors.ts *)

\* The errors member of an error envelope: absent, or a value that is or is
\* not an array, with its elements.
NoErrors == [present |-> FALSE, isArray |-> FALSE, items |-> <<>>]
ErrorList(items) == [present |-> TRUE, isArray |-> TRUE, items |-> items]
NotAList == [present |-> TRUE, isArray |-> FALSE, items |-> <<>>]

\* A response body as the transport hands it over (_data): a scalar, or an
\* object with the members the envelope schema reads and one it does not.
Scalar(x) ==
    [t |-> x.t, v |-> x.v, message |-> Undefined, code |-> Undefined,
     requestId |-> Undefined, errors |-> NoErrors, extra |-> Undefined]
Object(message, code, requestId, errors, extra) ==
    [t |-> "object", v |-> "", message |-> message, code |-> code,
     requestId |-> requestId, errors |-> errors, extra |-> extra]
NullBody == Scalar(Null)
UndefinedBody == Scalar(Undefined)

BodyTruthy(b) == b.t = "object" \/ Truthy([t |-> b.t, v |-> b.v])

ApiErrorSchema(b) ==
    /\ b.t = "object"
    /\ IsString(b.message)
    /\ OptionalString(b.code)
    /\ OptionalString(b.requestId)
    /\ \/ ~ b.errors.present
       \/ /\ b.errors.isArray
          /\ \A i \in 1..Len(b.errors.items) :
                /\ IsString(b.errors.items[i].field)
                /\ IsString(b.errors.items[i].message)

\* The output of a successful parse: the known members only.
ApiErrorOutput(b) == Object(b.message, b.code, b.requestId, b.errors, Undefined)

U301ErrorCode ==
    {"BAD_REQUEST", "UNAUTHORIZED", "FORBIDDEN", "NOT_FOUND", "RATE_LIMITED",
     "VALIDATION_FAILED", "PARSE_FAILED", "NETWORK_ERROR", "SERVER_ERROR",
     "UNKNOWN"}

\* The classes that are instanceof U301Error.
U301Classes ==
    {"U301Error", "BadRequestError", "UnauthorizedError", "ForbiddenError",
     "NotFoundError", "RateLimitError", "ValidationError", "ParseError",
     "NetworkError", "ServerError"}

ErrorByCode(code) ==
    CASE code = "BAD_REQUEST" -> "BadRequestError"
      [] code = "UNAUTHORIZED" -> "UnauthorizedError"
      [] code = "FORBIDDEN" -> "ForbiddenError"
      [] code = "NOT_FOUND" -> "NotFoundError"
      [] code = "RATE_LIMITED" -> "RateLimitError"
      [] code = "VALIDATION_FAILED" -> "ValidationError"
      [] code = "PARSE_FAILED" -> "ParseError"
      [] code = "NETWORK_ERROR" -> "NetworkError"
      [] code = "SERVER_ERROR" -> "ServerError"
      [] OTHER -> "U301Error"

NoStatus == [has |-> FALSE, n |-> 0]
Status(n) == [has |-> TRUE, n |-> n]

\* new U301Error(message, init) and its subclasses.
U301Error(cls, code, message, status, requestId, details, cause) ==
    [cls |-> cls, code |-> code, message |-> message, status |-> status,
     requestId |-> requestId, details |-> details, cause |-> cause]

NoCause == [kind |-> "undefined", message |-> ""]

isU301Error(input, code) ==
    IF input.cls \notin U301Classes THEN FALSE
    ELSE IF ~ Truthy(code) THEN TRUE
    ELSE input.code = code.v

\* The first part of toU301Error: status, parsed envelope, message, request
\* id and envelope code.
Enrich(response, cause) ==
    LET status == IF response.present /\ response.status.has
                  THEN response.status.n ELSE 0
        data == IF response.present THEN response.data ELSE UndefinedBody
        parsed == BodyTruthy(data) /\ ApiErrorSchema(data)
        api == IF parsed THEN ApiErrorOutput(data) ELSE NullBody
    IN  [status |-> status,
         data |-> data,
         api |-> api,
         message |-> IF parsed THEN api.message.v
                     ELSE IF cause.kind = "Error" THEN cause.message
                     ELSE "Request error",
         requestId |-> IF parsed THEN api.requestId ELSE Undefined,
         codeFromApi |-> IF parsed THEN api.code ELSE Undefined]

\* toU301Error with the server-error test written > 500.
toU301ErrorStrict(response, cause) ==
    LET e == Enrich(response, cause)
        rawOrApi == IF e.api.t = "null" THEN e.data ELSE e.api
        Make(cls, code, details) ==
            U301Error(cls, code, e.message, Status(e.status), e.requestId,
                      details, cause)
    IN  IF e.status = 0 THEN Make("NetworkError", "NETWORK_ERROR", rawOrApi)
        ELSE IF e.status = 400 THEN Make("BadRequestError", "BAD_REQUEST", e.api)
        ELSE IF e.status = 401 THEN Make("UnauthorizedError", "UNAUTHORIZED", e.api)
        ELSE IF e.status = 403 THEN Make("ForbiddenError", "FORBIDDEN", e.api)
        ELSE IF e.status = 404 THEN Make("NotFoundError", "NOT_FOUND", e.api)
        ELSE IF e.status = 429 THEN Make("RateLimitError", "RATE_LIMITED", e.api)
        ELSE IF e.status > 500 THEN Make("ServerError", "SERVER_ERROR", e.api)
        ELSE Make("U301Error",
                  IF e.codeFromApi.t = "undefined" THEN "UNKNOWN"
                  ELSE e.codeFromApi.v,
                  rawOrApi)

toU301Error(response, cause) ==
    LET e == Enrich(response, cause)
        rawOrApi == IF e.api.t = "null" THEN e.data ELSE e.api
        Make(cls, code, details) ==
            U301Error(cls, code, e.message, Status(e.status), e.requestId,
                      details, cause)
    IN  IF e.status = 0 THEN Make("NetworkError", "NETWORK_ERROR", rawOrApi)
        ELSE IF e.status = 400 THEN Make("BadRequestError", "BAD_REQUEST", e.api)
        ELSE IF e.status = 401 THEN Make("UnauthorizedError", "UNAUTHORIZED", e.api)
        ELSE IF e.status = 403 THEN Make("ForbiddenError", "FORBIDDEN", e.api)
        ELSE IF e.status = 404 THEN Make("NotFoundError", "NOT_FOUND", e.api)
        ELSE IF e.status = 429 THEN Make("RateLimitError", "RATE_LIMITED", e.api)
        ELSE IF e.status >= 500 THEN Make("ServerError", "SERVER_ERROR", e.api)
        ELSE Make("U301Error",
                  IF e.codeFromApi.t = "undefined" THEN "UNKNOWN"
                  ELSE e.codeFromApi.v,
                  rawOrApi)

\* Inputs of the classifier.
NoResponse == [present |-> FALSE, status |-> NoStatus, data |-> UndefinedBody]
Response(status, data) == [present |-> TRUE, status |-> status, data |-> data]

SampleStatuses ==
    {NoStatus} \cup
    {Status(n) : n \in {0, 302, 400, 401, 403, 404, 418, 422, 429, 499,
                         500, 503, 599}}

SampleBodies ==
    { UndefinedBody, NullBody, Scalar(Str("")), Scalar(Str("Bad Gateway")),
      Scalar(Num("0")),
      Object(Str("teapot"), Undefined, Undefined, NoErrors, Undefined),
      Object(Str("blocked"), Str("LINK_BLOCKED"), Str("req-1"), NoErrors,
             Str("x")),
      Object(Str("denied"), Str("BAD_REQUEST"), Undefined,
             ErrorList(<<[field |-> Str("url"), message |-> Str("bad")]>>),
             Undefined),
      Object(Str("empty code"), Str(""), Str("req-2"), NoErrors, Undefined),
      Object(Num("5"), Str("LINK_BLOCKED"), Str("req-3"), NoErrors, Undefined),
      Object(Str("m"), Null, Undefined, NoErrors, Undefined),
      Object(Str("m"), Str("RATE_LIMITED"), Undefined, NotAList, Undefined),
      Object(Str("m"), Str("FORBIDDEN"), Undefined,
             ErrorList(<<[field |-> Num("1"), message |-> Str("bad")]>>),
             Undefined) }

SampleCauses ==
    { NoCause, [kind |-> "Error", message |-> "fetch failed"],
      [kind |-> "string", message |-> "boom"] }

SampleResponses ==
    {NoResponse} \cup
    {Response(s, d) : s \in SampleStatuses, d \in SampleBodies}

CodeFilters == {Undefined, Str("")} \cup {Str(c) : c \in U301ErrorCode}

\* toU301Error(response, cause) is applied to a drawn input.
Classify ==
    /\ classified.phase = "input"
    /\ classified' = [phase |-> "error", response |-> classified.response,
                      cause |-> classified.cause,
                      error |-> toU301Error(classified.response,
                                            classified.cause)]
    /\ UNCHANGED <<workspaceId, heap, given, slot>>

\* isU301Error(error, code) is applied to the classified error.
Narrow ==
    /\ classified.phase = "error"
    /\ \E code \in CodeFilters :
          classified' = [phase |-> "narrowed",
                         response |-> classified.response,
                         cause |-> classified.cause,
                         error |-> classified.error,
                         filter |-> code,
                         isError |-> isU301Error(classified.error, code)]
    /\ UNCHANGED <<workspaceId, heap, given, slot>>

----------------------------------------------------------------------------
(* Formats the schemas test with v.uuid(), v.url(), v.isoTimestamp() and   *)
(* v.isoDate(): the sample strings that match each.                        *)

Uuids == {"6f1c2d3e-0a1b-4c2d-8e3f-1a2b3c4d5e6f"}
Urls == {"https://a.example/x", "https://b.example/y"}
IsoTimestamps == {"2024-05-01T00:00:00.000Z", "2024-05-08T00:00:00.000Z"}
IsoDates == {"2024-05-01", "2024-05-02"}

IsUuid(x) == IsString(x) /\ x.v \in Uuids
IsUrl(x) == IsString(x) /\ x.v \in Urls
IsIsoTimestamp(x) == IsString(x) /\ x.v \in IsoTimestamps
IsIsoDate(x) == IsString(x) /\ x.v \in IsoDates

\* A JSON array member of a body: a value that is or is not an array.
Array(items) == [isArray |-> TRUE, items |-> items]
NotArray == [isArray |-> FALSE, items |-> <<>>]

\* All sequences over S of length 0..n.
SeqsUpTo(S, n) == UNION {[1..k -> S] : k \in 0..n}

----------------------------------------------------------------------------
(* url-shortener.ts: schemas *)

\* One element of a bulk response: t is "object" for an object, and the
\* members are those either item schema reads.
Item(id, url, slug, isCustomSlug, domain, isReused, comment, error, message) ==
    [t |-> "object", id |-> id, url |-> url, slug |-> slug,
     isCustomSlug |-> isCustomSlug, domain |-> domain, isReused |-> isReused,
     comment |-> comment, error |-> error, message |-> message]
\* The value undefined where an item is expected.
NoItem ==
    [t |-> "undefined", id |-> Undefined, url |-> Undefined,
     slug |-> Undefined, isCustomSlug |-> Undefined, domain |-> Undefined,
     isReused |-> Undefined, comment |-> Undefined, error |-> Undefined,
     message |-> Undefined]

ShortenResultItem(i) ==
    /\ i.t = "object"
    /\ IsUuid(i.id)
    /\ IsUrl(i.url)
    /\ IsString(i.slug)
    /\ IsBoolean(i.isCustomSlug)
    /\ IsString(i.domain)
    /\ IsBoolean(i.isReused)
    /\ IsString(i.comment)

ShortenErrorItem(i) ==
    /\ i.t = "object"
    /\ IsUrl(i.url)
    /\ IsString(i.error)
    /\ OptionalString(i.message)

\* v.union([ShortenResultItem, ShortenErrorItem]): the output of the first
\* member that matches, holding that member's keys only.
ShortenUnion(i) == ShortenResultItem(i) \/ ShortenErrorItem(i)
ShortenUnionOutput(i) ==
    IF ShortenResultItem(i)
    THEN Item(i.id, i.url, i.slug, i.isCustomSlug, i.domain, i.isReused,
              i.comment, Undefined, Undefined)
    ELSE Item(Undefined, i.url, Undefined, Undefined, Undefined, Undefined,
              Undefined, i.error, i.message)

\* v.safeParse(ShortenResult, body)
ShortenResult(body) ==
    /\ body.isArray
    /\ \A k \in 1..Len(body.items) : ShortenUnion(body.items[k])
ShortenResultOutput(body) ==
    [k \in 1..Len(body.items) |-> ShortenUnionOutput(body.items[k])]
\* The issues of a failed parse: the root when it is no array, else the
\* elements that match neither member.
ShortenResultIssues(body) ==
    [root |-> ~ body.isArray,
     items |-> {k \in 1..Len(body.items) : ~ ShortenUnion(body.items[k])}]

\* 'error' in item && item.error
HasError(i) == i.error.t # "undefined" /\ Truthy(i.error)

\* A link of a list response, with the members ShortenLinkSchema reads.
ShortenLinkSchema(l) ==
    /\ l.t = "object"
    /\ IsUuid(l.id)
    /\ IsString(l.domainName)
    /\ IsString(l.slug)
    /\ IsBoolean(l.isCustomSlug)
    /\ IsString(l.shortUrl)
    /\ IsUrl(l.originalUrl)
    /\ IsBoolean(l.allowSearchEngineIndexing)
    /\ IsBoolean(l.archived)
    /\ IsBoolean(l.suspended)
    /\ (l.statsClicks.t = "undefined" \/ IsNumber(l.statsClicks))
    /\ (l.expiresAt.t \in {"undefined", "null"} \/ IsIsoTimestamp(l.expiresAt))
    /\ IsUuid(l.userId)
    /\ IsUuid(l.workspaceId)
    /\ IsString(l.comment)
    /\ IsIsoTimestamp(l.createdAt)
    /\ (l.updatedAt.t \in {"undefined", "null"} \/ IsIsoTimestamp(l.updatedAt))

\* The schema list() builds: {links: ShortenLink[], metadata: {total,
\* perPage, page}}.
ListSchema(body) ==
    /\ body.t = "object"
    /\ body.links.isArray
    /\ \A k \in 1..Len(body.links.items) : ShortenLinkSchema(body.links.items[k])
    /\ body.metadata.t = "object"
    /\ IsNumber(body.metadata.total)
    /\ IsNumber(body.metadata.perPage)
    /\ IsNumber(body.metadata.page)
\* The output keeps the known members; an unknown one (extra) is dropped.
ListSchemaOutput(body) ==
    [body EXCEPT !.extra = Undefined,
                 !.links.items = [k \in 1..Len(body.links.items) |->
                     [body.links.items[k] EXCEPT !.extra = Undefined]]]

----------------------------------------------------------------------------
(* analytics.ts: schemas *)

ranges == {"24h", "1d", "3d", "7d", "14d", "30d", "60d", "1m"}
granularities == {"day", "hour"}
DEFAULT_TIMEZONE == "Etc/UTC"

TopTypes ==
    {"browsers", "device-types", "short-links", "bots", "device-vendors",
     "operating-systems", "countries", "referers", "languages", "cities"}

\* meta: v.optional(v.record(v.string(), v.nullable(v.union([v.string(),
\* v.number()])))), as its presence, whether it is an object, and its values.
NoMeta == [present |-> FALSE, isRecord |-> FALSE, values |-> <<>>]
Meta(values) == [present |-> TRUE, isRecord |-> TRUE, values |-> values]
MetaSchema(m) ==
    \/ ~ m.present
    \/ /\ m.isRecord
       /\ \A k \in 1..Len(m.values) :
             m.values[k].t = "null" \/ IsString(m.values[k]) \/ IsNumber(m.values[k])

TopRowSchema(r) ==
    /\ r.t = "object"
    /\ IsString(r.label)
    /\ IsNumber(r.click)
    /\ MetaSchema(r.meta)

AnalyticsTopSchema(body) ==
    /\ body.t = "object"
    /\ body.datetimeRange.isArray
    /\ \A k \in 1..Len(body.datetimeRange.items) :
          IsIsoTimestamp(body.datetimeRange.items[k])
    /\ Len(body.datetimeRange.items) = 2
    /\ IsString(body.range) /\ body.range.v \in ranges
    /\ body.data.isArray
    /\ \A k \in 1..Len(body.data.items) : TopRowSchema(body.data.items[k])
AnalyticsTopOutput(body) ==
    [body EXCEPT !.extra = Undefined,
                 !.data.items = [k \in 1..Len(body.data.items) |->
                     [body.data.items[k] EXCEPT !.extra = Undefined]]]

ClickDateItemSchema(p) == p.t = "object" /\ IsIsoDate(p.date) /\ IsNumber(p.click)
ClickHourItemSchema(p) == p.t = "object" /\ IsString(p.date) /\ IsNumber(p.click)

\* AnalyticsClicksSchema accepting day-shaped points only.
AnalyticsClicksSchemaDayOnly(body) ==
    /\ body.t = "object"
    /\ IsIsoTimestamp(body.start)
    /\ IsIsoTimestamp(body.end)
    /\ body.data.isArray
    /\ \A k \in 1..Len(body.data.items) : ClickDateItemSchema(body.data.items[k])

AnalyticsClicksSchema(body) ==
    /\ body.t = "object"
    /\ IsIsoTimestamp(body.start)
    /\ IsIsoTimestamp(body.end)
    /\ body.data.isArray
    /\ \A k \in 1..Len(body.data.items) :
          \/ ClickDateItemSchema(body.data.items[k])
          \/ ClickHourItemSchema(body.data.items[k])
AnalyticsClicksOutput(body) ==
    [body EXCEPT !.extra = Undefined,
                 !.data.items = [k \in 1..Len(body.data.items) |->
                     [body.data.items[k] EXCEPT !.extra = Undefined]]]

----------------------------------------------------------------------------
(* index.ts: the transport the facade builds, and what a call gets from it *)

\* What the HTTP exchange of one call ends in: a success response with its
\* parsed body, an error response (status 400..599), or no response at all.
Ok(body) == [kind |-> "ok", body |-> body]
HttpError(response, error) ==
    [kind |-> "httpError", response |-> response, error |-> error]
NoResponseAtAll == [kind |-> "noResponse"]

Resolved(body) == [kind |-> "resolved", body |-> body]
Rejected(error) == [kind |-> "rejected", error |-> error]

\* The transport's own error, and valibot's: neither extends U301Error.
FetchError == [cls |-> "FetchError", message |-> "fetch failed"]
ValiError(issues) == [cls |-> "ValiError", message |-> "Invalid type", issues |-> issues]

\* The hook computes the typed error and throws it (its debug line aside).
onResponseError(response, error) == toU301Error(response, error)

\* ofetch.create({... onResponseError ...}): the hook runs for an error
\* response; no hook is installed for a request that gets no response, so
\* the transport's own error rejects the call.
fetcher(exchange) ==
    CASE exchange.kind = "ok" -> Resolved(exchange.body)
      [] exchange.kind = "httpError" ->
            Rejected(onResponseError(exchange.response, exchange.error))
      [] exchange.kind = "noResponse" -> Rejected(FetchError)

\* The default query of the transport merged with a call's query: the
\* call's workspaceId when the call's query has the key.
MergeQuery(client, query) ==
    IF query.workspaceId.t = "undefined"
    THEN [query EXCEPT !.workspaceId = Str(workspaceId[client])]
    ELSE query

Returned(value) == [kind |-> "returned", value |-> value]
Raised(error) == [kind |-> "raised", error |-> error]

----------------------------------------------------------------------------
(* url-shortener.ts and analytics.ts: what each operation does with what   *)
(* the transport gives it                                                  *)

ValidationError(message, details) ==
    U301Error("ValidationError", "VALIDATION_FAILED", message, NoStatus,
              Undefined, details, NoCause)
ParseError(message, details) ==
    U301Error("ParseError", "PARSE_FAILED", message, NoStatus, Undefined,
              details, NoCause)

\* typeof i === 'string' ? { url: i } : i
Normalize(i) == [i EXCEPT !.t = "object"]

\* create, after the await.
createResult(fetched) ==
    IF fetched.kind = "rejected" THEN Raised(fetched.error)
    ELSE IF ShortenResult(fetched.body)
    THEN LET output == ShortenResultOutput(fetched.body)
             item == IF Len(output) > 0 THEN output[1] ELSE NoItem
         IN  IF item.t # "undefined" /\ HasError(item)
             THEN Raised(ValidationError(
                      IF Truthy(item.message) THEN item.message.v
                      ELSE item.error.v, item))
             ELSE Returned(item)
    ELSE Raised(ParseError("Invalid ShortenResult",
                           ShortenResultIssues(fetched.body)))

\* createMany that drops the error items from what it returns.
createManyResultSuccessesOnly(opts, fetched) ==
    IF fetched.kind = "rejected" THEN Raised(fetched.error)
    ELSE IF ~ ShortenResult(fetched.body)
    THEN Raised(ParseError("Invalid ShortenResult",
                           ShortenResultIssues(fetched.body)))
    ELSE LET output == ShortenResultOutput(fetched.body)
             errors == SelectSeq(output, HasError)
         IN  IF Truthy(opts.throwOnError) /\ Len(errors) > 0
             THEN Raised(ValidationError("Bulk create failed", errors))
             ELSE Returned(SelectSeq(output, LAMBDA i : ~ HasError(i)))

\* createMany, after the await.
createManyResult(opts, fetched) ==
    IF fetched.kind = "rejected" THEN Raised(fetched.error)
    ELSE IF ~ ShortenResult(fetched.body)
    THEN Raised(ParseError("Invalid ShortenResult",
                           ShortenResultIssues(fetched.body)))
    ELSE LET output == ShortenResultOutput(fetched.body)
             errors == SelectSeq(output, HasError)
         IN  IF Truthy(opts.throwOnError) /\ Len(errors) > 0
             THEN Raised(ValidationError("Bulk create failed", errors))
             ELSE Returned(output)

\* list, after the await: v.parse throws valibot's own error.
listResult(fetched) ==
    IF fetched.kind = "rejected" THEN Raised(fetched.error)
    ELSE IF ListSchema(fetched.body) THEN Returned(ListSchemaOutput(fetched.body))
    ELSE Raised(ValiError("list"))

\* getTopData, after the await.
getTopDataResult(fetched) ==
    IF fetched.kind = "rejected" THEN Raised(fetched.error)
    ELSE IF AnalyticsTopSchema(fetched.body)
    THEN Returned(AnalyticsTopOutput(fetched.body))
    ELSE Raised(ValiError("top"))

\* getClicks, after the await.
getClicksResult(fetched) ==
    IF fetched.kind = "rejected" THEN Raised(fetched.error)
    ELSE IF AnalyticsClicksSchema(fetched.body)
    THEN Returned(AnalyticsClicksOutput(fetched.body))
    ELSE Raised(ValiError("clicks"))

\* The request each operation hands to the transport.
createRequest(client, options) ==
    [method |-> "POST", path |-> <<"/shorten", "/bulk">>,
     query |-> MergeQuery(client, [workspaceId |-> Undefined]),
     body |-> <<Normalize(options)>>]
createManyRequest(client, inputs) ==
    [method |-> "POST", path |-> <<"/shorten", "/bulk">>,
     query |-> MergeQuery(client, [workspaceId |-> Undefined]),
     body |-> [k \in 1..Len(inputs) |-> Normalize(inputs[k])]]
\* params.workspaceId ??= this.workspaceId
listParams(client, params) ==
    [params EXCEPT !.workspaceId =
        IF @.t \in {"undefined", "null"} THEN Str(workspaceId[client]) ELSE @]
listRequest(client, params) ==
    [method |-> "GET", path |-> <<"/shorten", "/list">>,
     query |-> MergeQuery(client, listParams(client, params))]
getTopDataRequest(client, type, params) ==
    [method |-> "GET", path |-> <<"/shorten/analytics", "/top-", type>>,
     query |-> MergeQuery(client,
        [range |-> params.range,
         timezone |-> IF params.timezone.t = "undefined"
                      THEN Str(DEFAULT_TIMEZONE) ELSE params.timezone,
         workspaceId |-> IF params.workspaceId.t = "undefined"
                         THEN Str(workspaceId[client]) ELSE params.workspaceId])]
getClicksRequest(client, params) ==
    [method |-> "GET", path |-> <<"/shorten/analytics", "/clicks">>,
     query |-> MergeQuery(client,
        [range |-> params.range,
         granularity |-> params.granularity,
         timezone |-> IF params.timezone.t = "undefined"
                      THEN Str(DEFAULT_TIMEZONE) ELSE params.timezone,
         workspaceId |-> IF params.workspaceId.t = "undefined"
                         THEN Str(workspaceId[client]) ELSE params.workspaceId])]

----------------------------------------------------------------------------
(* Bounds and the values drawn for arguments and responses *)

MaxInputs == 2
MaxItems == 2
MaxLinks == 2
MaxRows == 2
MaxPoints == 2

Clients == {"a", "b"}
ParamRefs == {"p1", "p2"}
Slots == {1}
ConcurrentSlots == {1, 2}

StringInput(url) ==
    [t |-> "string", url |-> Str(url), slug |-> Undefined, comment |-> Undefined]
OptionsInput(url, slug, comment) ==
    [t |-> "object", url |-> Str(url), slug |-> slug, comment |-> comment]
SampleInputs ==
    { StringInput("https://a.example/x"),
      OptionsInput("https://b.example/y", Str("promo"), Undefined) }
SampleOpts ==
    { [throwOnError |-> Undefined], [throwOnError |-> Bool("false")],
      [throwOnError |-> Bool("true")] }

OkItem ==
    Item(Str("6f1c2d3e-0a1b-4c2d-8e3f-1a2b3c4d5e6f"), Str("https://a.example/x"),
         Str("abc"), Bool("false"), Str("u301.co"), Bool("false"), Str(""),
         Undefined, Undefined)
SampleItems ==
    { OkItem,
      [OkItem EXCEPT !.error = Str("DUPLICATE")],
      Item(Undefined, Str("https://b.example/y"), Undefined, Undefined,
           Undefined, Undefined, Undefined, Str("INVALID_URL"), Str("blocked")),
      Item(Undefined, Str("https://a.example/x"), Undefined, Undefined,
           Undefined, Undefined, Undefined, Str(""), Undefined),
      Item(Undefined, Str("not a url"), Str("abc"), Undefined, Undefined,
           Undefined, Undefined, Undefined, Undefined) }
BulkBodies ==
    {NotArray} \cup {Array(s) : s \in SeqsUpTo(SampleItems, MaxItems)}

OkLink ==
    [t |-> "object", id |-> Str("6f1c2d3e-0a1b-4c2d-8e3f-1a2b3c4d5e6f"),
     domainName |-> Str("u301.co"), slug |-> Str("abc"),
     isCustomSlug |-> Bool("false"), shortUrl |-> Str("u301.co/abc"),
     originalUrl |-> Str("https://a.example/x"),
     allowSearchEngineIndexing |-> Bool("true"), archived |-> Bool("false"),
     suspended |-> Bool("false"), statsClicks |-> Undefined,
     expiresAt |-> Null,
     userId |-> Str("6f1c2d3e-0a1b-4c2d-8e3f-1a2b3c4d5e6f"),
     workspaceId |-> Str("6f1c2d3e-0a1b-4c2d-8e3f-1a2b3c4d5e6f"),
     comment |-> Str(""), createdAt |-> Str("2024-05-01T00:00:00.000Z"),
     updatedAt |-> Undefined, extra |-> Str("x")]
SampleLinks ==
    { OkLink,
      [OkLink EXCEPT !.comment = Undefined],
      [OkLink EXCEPT !.statsClicks = Num("7"),
                     !.expiresAt = Str("2024-05-08T00:00:00.000Z")] }
Metadata(total, perPage, page) ==
    [t |-> "object", total |-> total, perPage |-> perPage, page |-> page]
SampleMetadata ==
    { Metadata(Num("1"), Num("10"), Num("1")),
      Metadata(Undefined, Num("10"), Num("1")),
      [t |-> "undefined", total |-> Undefined, perPage |-> Undefined,
       page |-> Undefined] }
ListBody(t, links, metadata) ==
    [t |-> t, links |-> links, metadata |-> metadata, extra |-> Undefined]
ListBodies ==
    {ListBody("null", NotArray,
              [t |-> "undefined", total |-> Undefined, perPage |-> Undefined,
               page |-> Undefined])} \cup
    {ListBody("object", Array(l), m) :
        l \in SeqsUpTo(SampleLinks, MaxLinks), m \in SampleMetadata}

TopRow(label, click, meta) ==
    [t |-> "object", label |-> label, click |-> click, meta |-> meta,
     extra |-> Undefined]
SampleRows ==
    { TopRow(Str("Chrome"), Num("12"), NoMeta),
      TopRow(Str("Tokyo"), Num("3"), Meta(<<Str("JP"), Null, Num("1")>>)),
      TopRow(Str("Safari"), Str("12"), NoMeta) }
TopBody(t, datetimeRange, range, data) ==
    [t |-> t, datetimeRange |-> datetimeRange, range |-> range, data |-> data,
     extra |-> Undefined]
TopBodies ==
    {TopBody("null", NotArray, Undefined, NotArray)} \cup
    {TopBody("object", Array(d), r, Array(rows)) :
        d \in { <<Str("2024-05-01T00:00:00.000Z"), Str("2024-05-08T00:00:00.000Z")>>,
                <<Str("2024-05-01T00:00:00.000Z")>> },
        r \in {Str("7d"), Str("2y")},
        rows \in SeqsUpTo(SampleRows, MaxRows)}

ClickPoint(date, click) ==
    [t |-> "object", date |-> date, click |-> click, extra |-> Undefined]
DayPoint == ClickPoint(Str("2024-05-01"), Num("4"))
HourPoint == ClickPoint(Str("2024-05-01 13:00"), Num("2"))
SamplePoints == {DayPoint, HourPoint, ClickPoint(Str("2024-05-02"), Str("4"))}
ClicksBody(t, start, end, data) ==
    [t |-> t, start |-> start, end |-> end, data |-> data, extra |-> Undefined]
ClicksBodies ==
    {ClicksBody("null", Undefined, Undefined, NotArray)} \cup
    {ClicksBody("object", s, Str("2024-05-08T00:00:00.000Z"), Array(p)) :
        s \in {Str("2024-05-01T00:00:00.000Z"), Str("yesterday")},
        p \in SeqsUpTo(SamplePoints, MaxPoints)}

SampleTopParams ==
    { [range |-> Str("7d"), timezone |-> Undefined, workspaceId |-> Undefined],
      [range |-> Str("30d"), timezone |-> Str("Asia/Tokyo"),
       workspaceId |-> Str("ws-x")] }
SampleClicksParams ==
    { [range |-> p.range, granularity |-> Str(g), timezone |-> p.timezone,
       workspaceId |-> p.workspaceId] :
        p \in SampleTopParams, g \in granularities }

\* The exchanges that end without a success response.
FailedExchanges ==
    {NoResponseAtAll} \cup
    {HttpError(Response(Status(n), d), c) :
        n \in {401, 418},
        d \in { Object(Str("blocked"), Str("LINK_BLOCKED"), Str("req-1"),
                       NoErrors, Undefined) },
        c \in {NoCause}} \cup
    {HttpError(Response(Status(503), Scalar(Str("Bad Gateway"))),
               [kind |-> "Error", message |-> "503 Service Unavailable"])}

Exchanges(bodies) == {Ok(b) : b \in bodies} \cup FailedExchanges

\* One body that passes and one that does not, for the runs with two slots.
FewBulkBodies == {Array(<<OkItem>>), NotArray}
FewListBodies ==
    { ListBody("object", Array(<<>>), Metadata(Num("1"), Num("10"), Num("1"))),
      ListBody("object", Array(<<>>), Metadata(Undefined, Num("10"), Num("1"))) }
FewTopBodies ==
    { TopBody("object",
              Array(<<Str("2024-05-01T00:00:00.000Z"),
                      Str("2024-05-08T00:00:00.000Z")>>),
              Str("7d"), Array(<<>>)),
      TopBody("null", NotArray, Undefined, NotArray) }
FewClicksBodies ==
    { ClicksBody("object", Str("2024-05-01T00:00:00.000Z"),
                 Str("2024-05-08T00:00:00.000Z"), Array(<<DayPoint>>)),
      ClicksBody("null", Undefined, Undefined, NotArray) }
FewExchanges(bodies) ==
    {Ok(b) : b \in bodies} \cup
    {HttpError(Response(Status(418),
                        Object(Str("blocked"), Str("LINK_BLOCKED"), Str("req-1"),
                               NoErrors, Undefined)), NoCause)}

----------------------------------------------------------------------------
(* The calls.  Each public operation runs to its await (the request is     *)
(* built and handed to the transport) and, when the exchange has ended,    *)
(* from the await to its return or throw.                                  *)

Idle == [state |-> "idle"]
Pending(op, client, args, request) ==
    [state |-> "pending", op |-> op, client |-> client, args |-> args,
     request |-> request]
Done(call, exchange, outcome) ==
    [state |-> "done", op |-> call.op, client |-> call.client,
     args |-> call.args, request |-> call.request, exchange |-> exchange,
     outcome |-> outcome]

Free(s) == slot[s].state = "idle"
Awaiting(s, op) == slot[s].state = "pending" /\ slot[s].op = op

\* {} : the default of list's parameter.
EmptyParams == [workspaceId |-> Undefined, perPage |-> Undefined, page |-> Undefined]

create(s) ==
    /\ Free(s)
    /\ \E client \in Clients, options \in SampleInputs :
          slot' = [slot EXCEPT ![s] =
                      Pending("create", client, [options |-> options],
                              createRequest(client, options))]
    /\ UNCHANGED <<workspaceId, heap, given, classified>>

createAwaited(s, exchanges) ==
    /\ Awaiting(s, "create")
    /\ \E x \in exchanges :
          slot' = [slot EXCEPT ![s] = Done(slot[s], x, createResult(fetcher(x)))]
    /\ UNCHANGED <<workspaceId, heap, given, classified>>

createMany(s) ==
    /\ Free(s)
    /\ \E client \in Clients, inputs \in SeqsUpTo(SampleInputs, MaxInputs),
          opts \in SampleOpts :
          slot' = [slot EXCEPT ![s] =
                      Pending("createMany", client,
                              [inputs |-> inputs, opts |-> opts],
                              createManyRequest(client, inputs))]
    /\ UNCHANGED <<workspaceId, heap, given, classified>>

createManyAwaited(s, exchanges) ==
    /\ Awaiting(s, "createMany")
    /\ \E x \in exchanges :
          slot' = [slot EXCEPT ![s] =
                      Done(slot[s], x,
                           createManyResult(slot[s].args.opts, fetcher(x)))]
    /\ UNCHANGED <<workspaceId, heap, given, classified>>

\* list(params): params is one of the caller's objects, or left out.
list(s) ==
    /\ Free(s)
    /\ \E client \in Clients, ref \in ParamRefs \cup {"none"} :
          LET params == IF ref = "none" THEN EmptyParams ELSE heap[ref]
          IN  /\ heap' = IF ref = "none" THEN heap
                         ELSE [heap EXCEPT ![ref] = listParams(client, params)]
              /\ slot' = [slot EXCEPT ![s] =
                            Pending("list", client, [ref |-> ref],
                                    listRequest(client, params))]
    /\ UNCHANGED <<workspaceId, given, classified>>

listAwaited(s, exchanges) ==
    /\ Awaiting(s, "list")
    /\ \E x \in exchanges :
          slot' = [slot EXCEPT ![s] = Done(slot[s], x, listResult(fetcher(x)))]
    /\ UNCHANGED <<workspaceId, heap, given, classified>>

\* getTopBrowsers ... getTopCities: getTopData({type, ...params}).
getTopData(s) ==
    /\ Free(s)
    /\ \E client \in Clients, type \in TopTypes, params \in SampleTopParams :
          slot' = [slot EXCEPT ![s] =
                      Pending("getTopData", client,
                              [type |-> type, params |-> params],
                              getTopDataRequest(client, type, params))]
    /\ UNCHANGED <<workspaceId, heap, given, classified>>

getTopDataAwaited(s, exchanges) ==
    /\ Awaiting(s, "getTopData")
    /\ \E x \in exchanges :
          slot' = [slot EXCEPT ![s] =
                      Done(slot[s], x, getTopDataResult(fetcher(x)))]
    /\ UNCHANGED <<workspaceId, heap, given, classified>>

getClicks(s) ==
    /\ Free(s)
    /\ \E client \in Clients, params \in SampleClicksParams :
          slot' = [slot EXCEPT ![s] =
                      Pending("getClicks", client, [params |-> params],
                              getClicksRequest(client, params))]
    /\ UNCHANGED <<workspaceId, heap, given, classified>>

getClicksAwaited(s, exchanges) ==
    /\ Awaiting(s, "getClicks")
    /\ \E x \in exchanges :
          slot' = [slot EXCEPT ![s] =
                      Done(slot[s], x, getClicksResult(fetcher(x)))]
    /\ UNCHANGED <<workspaceId, heap, given, classified>>

\* The caller takes the value or the error of a finished call.
settle(s) ==
    /\ slot[s].state = "done"
    /\ slot' = [slot EXCEPT ![s] = Idle]
    /\ UNCHANGED <<workspaceId, heap, given, classified>>

----------------------------------------------------------------------------
(* Specifications *)

\* new U301({workspaceId: "ws-a"}), new U301({workspaceId: "ws-b"}); the
\* caller holds two ListParams objects.
Constructed(slots) ==
    /\ workspaceId = [c \in Clients |-> IF c = "a" THEN "ws-a" ELSE "ws-b"]
    /\ given = [r \in ParamRefs |->
                  IF r = "p1"
                  THEN [workspaceId |-> Undefined, perPage |-> Num("10"),
                        page |-> Num("1")]
                  ELSE [workspaceId |-> Str("ws-x"), perPage |-> Undefined,
                        page |-> Undefined]]
    /\ heap = given
    /\ slot = [s \in slots |-> Idle]

\* One call at a time, every response drawn.
Init ==
    /\ Constructed(Slots)
    /\ classified = [phase |-> "unused"]

Next ==
    \/ \E s \in DOMAIN slot : create(s)
    \/ \E s \in DOMAIN slot : createAwaited(s, Exchanges(BulkBodies))
    \/ \E s \in DOMAIN slot : createMany(s)
    \/ \E s \in DOMAIN slot : createManyAwaited(s, Exchanges(BulkBodies))
    \/ \E s \in DOMAIN slot : list(s)
    \/ \E s \in DOMAIN slot : listAwaited(s, Exchanges(ListBodies))
    \/ \E s \in DOMAIN slot : getTopData(s)
    \/ \E s \in DOMAIN slot : getTopDataAwaited(s, Exchanges(TopBodies))
    \/ \E s \in DOMAIN slot : getClicks(s)
    \/ \E s \in DOMAIN slot : getClicksAwaited(s, Exchanges(ClicksBodies))
    \/ \E s \in DOMAIN slot : settle(s)

Spec == Init /\ [][Next]_vars

\* Two calls in flight at once, in every interleaving.
InitConcurrent ==
    /\ Constructed(ConcurrentSlots)
    /\ classified = [phase |-> "unused"]

NextConcurrent ==
    \/ \E s \in DOMAIN slot : create(s)
    \/ \E s \in DOMAIN slot : createAwaited(s, FewExchanges(FewBulkBodies))
    \/ \E s \in DOMAIN slot : createMany(s)
    \/ \E s \in DOMAIN slot : createManyAwaited(s, FewExchanges(FewBulkBodies))
    \/ \E s \in DOMAIN slot : list(s)
    \/ \E s \in DOMAIN slot : listAwaited(s, FewExchanges(FewListBodies))
    \/ \E s \in DOMAIN slot : getTopData(s)
    \/ \E s \in DOMAIN slot : getTopDataAwaited(s, FewExchanges(FewTopBodies))
    \/ \E s \in DOMAIN slot : getClicks(s)
    \/ \E s \in DOMAIN slot : getClicksAwaited(s, FewExchanges(FewClicksBodies))
    \/ \E s \in DOMAIN slot : settle(s)

SpecConcurrent == InitConcurrent /\ [][NextConcurrent]_vars

\* The classifier on its own, on every drawn response and cause.
InitErrors ==
    /\ Constructed(Slots)
    /\ classified \in {[phase |-> "input", response |-> r, cause |-> c] :
                          r \in SampleResponses, c \in SampleCauses}

NextErrors == Classify \/ Narrow

SpecErrors == InitErrors /\ [][NextErrors]_vars

----------------------------------------------------------------------------
(* Properties *)

Classified == classified.phase \in {"error", "narrowed"}
\* The status toU301Error was given: absent counts as 0.
GivenStatus ==
    IF classified.response.present /\ classified.response.status.has
    THEN classified.response.status.n ELSE 0
\* The body parses as the error envelope and carries a code.
EnvelopeWithCode ==
    /\ classified.response.present
    /\ ApiErrorSchema(classified.response.data)
    /\ classified.response.data.code.t = "string"

\* C1: toU301Error maps the status to the kind by the fixed table, whatever
\* the body and the cause: absent or 0 NETWORK_ERROR, 400 BAD_REQUEST, 401
\* UNAUTHORIZED, 403 FORBIDDEN, 404 NOT_FOUND, 429 RATE_LIMITED, >= 500
\* SERVER_ERROR; for any other status the kind is the envelope's code when
\* the body parses as an envelope with a code, and UNKNOWN otherwise.
C1_StatusTable ==
    Classified =>
        classified.error.code =
            CASE GivenStatus = 0 -> "NETWORK_ERROR"
              [] GivenStatus = 400 -> "BAD_REQUEST"
              [] GivenStatus = 401 -> "UNAUTHORIZED"
              [] GivenStatus = 403 -> "FORBIDDEN"
              [] GivenStatus = 404 -> "NOT_FOUND"
              [] GivenStatus = 429 -> "RATE_LIMITED"
              [] GivenStatus >= 500 -> "SERVER_ERROR"
              [] OTHER -> IF EnvelopeWithCode
                          THEN classified.response.data.code.v
                          ELSE "UNKNOWN"

\* A 500 response whose envelope names another code is a SERVER_ERROR.
C1_Witness ==
    /\ Classified
    /\ GivenStatus = 500
    /\ EnvelopeWithCode
    /\ classified.response.data.code.v = "LINK_BLOCKED"
    /\ classified.error.code = "SERVER_ERROR"

Finished(s, op) == slot[s].state = "done" /\ slot[s].op = op
\* A finished call whose exchange ended in a success response.
Answered(s, op) == Finished(s, op) /\ slot[s].exchange.kind = "ok"
RaisedKind(s, code) ==
    /\ slot[s].outcome.kind = "raised"
    /\ isU301Error(slot[s].outcome.error, Str(code))

\* A success record: id, url, slug, isCustomSlug, domain, isReused, comment
\* and no error.
SuccessRecord(i) == ShortenResultItem(i) /\ i.error.t = "undefined"
\* An error entry: an item with the error member.
ErrorEntry(i) == i.t = "object" /\ i.error.t # "undefined"

\* C2: create returns only a success item; when the one result item is an
\* error entry it raises VALIDATION_FAILED with that item as details; when
\* the response does not match ShortenResult it raises PARSE_FAILED.
C2_CreateOutcome ==
    \A s \in DOMAIN slot :
        Answered(s, "create") =>
            LET body == slot[s].exchange.body
                o == slot[s].outcome
            IN  /\ o.kind = "returned" => SuccessRecord(o.value)
                /\ ~ ShortenResult(body) => RaisedKind(s, "PARSE_FAILED")
                /\ ( /\ ShortenResult(body)
                     /\ Len(body.items) > 0
                     /\ ErrorEntry(ShortenUnionOutput(body.items[1])) )
                   => /\ RaisedKind(s, "VALIDATION_FAILED")
                      /\ o.error.details = ShortenUnionOutput(body.items[1])

\* C3: createMany with throwOnError true on a schema-valid response raises
\* VALIDATION_FAILED with exactly the error items, in response order, when
\* there is one, and otherwise returns the sequence, all success items.
C3_ThrowOnError ==
    \A s \in DOMAIN slot :
        ( /\ Answered(s, "createMany")
          /\ slot[s].args.opts.throwOnError = Bool("true")
          /\ ShortenResult(slot[s].exchange.body) )
        => LET output == ShortenResultOutput(slot[s].exchange.body)
               errors == SelectSeq(output, ErrorEntry)
               o == slot[s].outcome
           IN  IF Len(errors) > 0
               THEN /\ RaisedKind(s, "VALIDATION_FAILED")
                    /\ o.error.details = errors
               ELSE /\ o.kind = "returned"
                    /\ o.value = output
                    /\ \A k \in 1..Len(o.value) : SuccessRecord(o.value[k])

\* A finished createMany that was called with throwOnError false or absent
\* and returned.
ReturnedInline(s) ==
    /\ Finished(s, "createMany")
    /\ ~ Truthy(slot[s].args.opts.throwOnError)
    /\ slot[s].outcome.kind = "returned"

\* C4 as stated: the returned sequence has one item per input, item i being
\* the result for input i.
C4_OnePerInput ==
    \A s \in DOMAIN slot :
        ReturnedInline(s) =>
            /\ Len(slot[s].outcome.value) = Len(slot[s].args.inputs)
            /\ \A k \in 1..Len(slot[s].outcome.value) :
                  slot[s].outcome.value[k].url = slot[s].args.inputs[k].url

\* Item k of the returned sequence holds the members of response item k:
\* those of a success record when it is one, else url, error and message.
SameMembers(out, raw) ==
    /\ out.url = raw.url
    /\ IF ShortenResultItem(raw)
       THEN /\ <<out.id, out.slug, out.isCustomSlug, out.domain, out.isReused,
                 out.comment>> =
               <<raw.id, raw.slug, raw.isCustomSlug, raw.domain, raw.isReused,
                 raw.comment>>
            /\ out.error.t = "undefined"
       ELSE /\ out.error = raw.error
            /\ out.message = raw.message
            /\ out.id.t = "undefined"

\* C4 (amended): createMany with throwOnError false or absent, when it
\* returns, returns the validated response: one item per item of the
\* response, in response order, success and error items mixed; and on a
\* schema-valid response it always returns.
C4_ReturnsResponseInOrder ==
    \A s \in DOMAIN slot :
        /\ ReturnedInline(s) =>
              /\ slot[s].exchange.kind = "ok"
              /\ Len(slot[s].outcome.value) = Len(slot[s].exchange.body.items)
              /\ \A k \in 1..Len(slot[s].outcome.value) :
                    SameMembers(slot[s].outcome.value[k],
                                slot[s].exchange.body.items[k])
        /\ ( /\ Answered(s, "createMany")
             /\ ~ Truthy(slot[s].args.opts.throwOnError)
             /\ ShortenResult(slot[s].exchange.body) )
           => slot[s].outcome.kind = "returned"

\* One input, and a returned sequence of two: an error item, then a success.
C4_Witness ==
    \E s \in DOMAIN slot :
        /\ ReturnedInline(s)
        /\ Len(slot[s].args.inputs) = 1
        /\ Len(slot[s].outcome.value) = 2
        /\ ErrorEntry(slot[s].outcome.value[1])
        /\ SuccessRecord(slot[s].outcome.value[2])

\* C5: list on a response of invalid shape raises PARSE_FAILED, and what it
\* returns has the response's own metadata, nothing defaulted.
C5_ListParseFailed ==
    \A s \in DOMAIN slot :
        Answered(s, "list") =>
            /\ ~ ListSchema(slot[s].exchange.body) => RaisedKind(s, "PARSE_FAILED")
            /\ slot[s].outcome.kind = "returned" =>
                  /\ slot[s].outcome.value.metadata = slot[s].exchange.body.metadata
                  /\ IsNumber(slot[s].outcome.value.metadata.total)

\* The response holds a day-shaped point.
HasDayPoint(body) ==
    \E k \in 1..Len(body.data.items) :
        body.data.items[k].t = "object" /\ IsIsoDate(body.data.items[k].date)

\* C6 as stated: under granularity 'hour' a response that contains a
\* day-shaped point raises PARSE_FAILED.
C6_HourRejectsDayPoints ==
    \A s \in DOMAIN slot :
        ( /\ Answered(s, "getClicks")
          /\ slot[s].args.params.granularity = Str("hour")
          /\ HasDayPoint(slot[s].exchange.body) )
        => RaisedKind(s, "PARSE_FAILED")

\* The shape getClicks accepts, with no mention of the granularity.
ClicksShape(body) ==
    /\ body.t = "object"
    /\ IsIsoTimestamp(body.start) /\ IsIsoTimestamp(body.end)
    /\ body.data.isArray
    /\ \A k \in 1..Len(body.data.items) :
          /\ body.data.items[k].t = "object"
          /\ IsString(body.data.items[k].date)
          /\ IsNumber(body.data.items[k].click)

\* C6 (amended): getClicks validates every point against the same union of
\* the day-shaped and hour-shaped variants whatever the granularity: a
\* point passes when its date is a string and its click a number, and the
\* accepted points are returned as they came.
C6_UnionWhateverGranularity ==
    \A s \in DOMAIN slot :
        Answered(s, "getClicks") =>
            LET body == slot[s].exchange.body
                o == slot[s].outcome
            IN  /\ o.kind = "returned" <=> ClicksShape(body)
                /\ o.kind = "returned" =>
                      /\ Len(o.value.data.items) = Len(body.data.items)
                      /\ \A k \in 1..Len(body.data.items) :
                            /\ o.value.data.items[k].date = body.data.items[k].date
                            /\ o.value.data.items[k].click = body.data.items[k].click

\* Granularity 'hour', a day-shaped and an hour-shaped point, both returned.
C6_Witness ==
    \E s \in DOMAIN slot :
        /\ Answered(s, "getClicks")
        /\ slot[s].args.params.granularity = Str("hour")
        /\ HasDayPoint(slot[s].exchange.body)
        /\ \E k \in 1..Len(slot[s].exchange.body.data.items) :
              ~ IsIsoDate(slot[s].exchange.body.data.items[k].date)
        /\ slot[s].outcome.kind = "returned"

\* The workspaceId the caller put in the argument of the call in slot s.
CallerWorkspaceId(s) ==
    IF slot[s].op = "list"
    THEN IF slot[s].args.ref = "none" THEN Undefined
         ELSE given[slot[s].args.ref].workspaceId
    ELSE slot[s].args.params.workspaceId

\* C7: in every call of list, of the top-N accessors and of getClicks, after
\* any earlier calls, the workspaceId sent is the client's own when the
\* caller gave none, and the caller's when one was given.
C7_WorkspaceSent ==
    \A s \in DOMAIN slot :
        ( /\ slot[s].state # "idle"
          /\ slot[s].op \in {"list", "getTopData", "getClicks"} )
        => slot[s].request.query.workspaceId =
              IF CallerWorkspaceId(s).t = "undefined"
              THEN Str(workspaceId[slot[s].client])
              ELSE CallerWorkspaceId(s)

\* The schema validator of each operation.
PassedValidator(op, body) ==
    CASE op \in {"create", "createMany"} -> ShortenResult(body)
      [] op = "list" -> ListSchema(body)
      [] op = "getTopData" -> AnalyticsTopSchema(body)
      [] op = "getClicks" -> AnalyticsClicksSchema(body)

\* C8: every public operation ends by returning a value that passed its
\* validator, or by raising an error of the taxonomy that carries a kind:
\* on an error response, on no response, and on a body that fails
\* validation.
C8_TypedOutcome ==
    \A s \in DOMAIN slot :
        slot[s].state = "done" =>
            IF slot[s].outcome.kind = "returned"
            THEN /\ slot[s].exchange.kind = "ok"
                 /\ PassedValidator(slot[s].op, slot[s].exchange.body)
            ELSE /\ isU301Error(slot[s].outcome.error, Undefined)
                 /\ slot[s].outcome.error.code # ""

\* The request the call in slot s sends when it is the caller's only call.
RequestAlone(s) ==
    LET c == slot[s].client
        a == slot[s].args
    IN  CASE slot[s].op = "create" -> createRequest(c, a.options)
          [] slot[s].op = "createMany" -> createManyRequest(c, a.inputs)
          [] slot[s].op = "list" ->
                listRequest(c, IF a.ref = "none" THEN EmptyParams ELSE given[a.ref])
          [] slot[s].op = "getTopData" -> getTopDataRequest(c, a.type, a.params)
          [] slot[s].op = "getClicks" -> getClicksRequest(c, a.params)

\* C9: calls are independent: the request a call sends is the one it sends
\* on its own, in every order and interleaving with another call, and no
\* call changes the argument object it was given.
C9_CallsIndependent ==
    /\ heap = given
    /\ \A s \in DOMAIN slot :
          slot[s].state # "idle" => slot[s].request = RequestAlone(s)

\* C10: the kind of every error toU301Error produces is one of the ten, and
\* isU301Error(err, kind) is true for exactly the errors of the kind's
\* variant.
C10_ClosedKinds ==
    Classified =>
        /\ classified.error.code \in U301ErrorCode
        /\ ( /\ classified.phase = "narrowed"
             /\ classified.filter.v \in U301ErrorCode )
           => ( classified.isError <=>
                   classified.error.cls = ErrorByCode(classified.filter.v) )

\* The body toU301Error was given, and whether it parses as the envelope.
GivenBody ==
    IF classified.response.present THEN classified.response.data
    ELSE UndefinedBody
ParsesAsEnvelope == ApiErrorSchema(GivenBody)

\* No value at all: undefined or null.
Nullish(b) == b.t \in {"undefined", "null"}

\* C11: in toU301Error, for every status: when the body parses as the error
\* envelope the error's message and requestId are the envelope's; when it
\* does not (or is absent) the message is the cause's message if the cause
\* is an Error and "Request error" otherwise, and the details are the raw
\* response body (no details where there is no body).
C11_EnrichmentAndDetails ==
    Classified =>
        IF ParsesAsEnvelope
        THEN /\ classified.error.message = GivenBody.message.v
             /\ classified.error.requestId = GivenBody.requestId
        ELSE /\ classified.error.message =
                   IF classified.cause.kind = "Error"
                   THEN classified.cause.message ELSE "Request error"
             /\ \/ classified.error.details = GivenBody
                \/ Nullish(classified.error.details) /\ Nullish(GivenBody)

=============================================================================
